---- MODULE Spec2Model ----
(***************************************************************************)
(* The durable action scheduler of app/scheduler/__init__.py, together     *)
(* with the transactional store session of app/db/interface.py it runs on. *)
(*                                                                         *)
(* One process runs one asyncio event loop: every action below is one      *)
(* stretch of a coroutine between two suspension points.  The store is a   *)
(* relational database with read-committed transactions: a session sees    *)
(* the committed rows and its own uncommitted writes.                      *)
(***************************************************************************)
EXTENDS Integers, FiniteSets, Sequences, TLC

\* ---------------------------------------------------------------- bounds
MaxActions == 2     \* rows the store's id sequence hands out
MaxTime == 1        \* the clock runs over 0..MaxTime
MaxProcesses == 2   \* process starts (the first boot and the restarts)
NumCallers == 1     \* business operations holding a session at the same time
NumUsers == 1       \* users of the service

Ids == 1..MaxActions
Times == 0..MaxTime
Callers == 1..NumCallers
Users == 1..NumUsers

\* The handler registry: "kek" is registered, "gone" is a type some row
\* still carries although no handler is registered for it in this build.
handlers == {"kek"}
ActionTypes == {"kek", "gone"}

\* Who armed a task: raw_schedule_action or run()'s load.
Origins == {"sched", "start"}

NoRow == [time |-> 0, type |-> "", done |-> FALSE, present |-> FALSE]
NoTask == [st |-> "none", type |-> "", dt |-> 0, at |-> 0]
NoTx == [open |-> FALSE, ins |-> {}, upd |-> {}]

\* The names the billing actions are stored under.
BillingActions ==
    [RecurrentPayment |-> "recurrent_payment",
     RecurrentPaymentRetry |-> "recurrent_payment_retry",
     KickInactive |-> "pishov_nahui",
     ExtraPlanPaymentRetry |-> "extra_plan_payment_retry",
     ExtraPlanReset |-> "extra_plan_reset"]

\* The names, the Action subclasses and the plain functions of the import-time
\* registration (two classes and one function are enough to collide).
ActionNames ==
    {BillingActions.RecurrentPayment, BillingActions.RecurrentPaymentRetry,
     BillingActions.KickInactive}
ActionClasses == {"RecurrentPaymentAction", "KickInactiveAction"}
RawHandlers == {"_deprecated_retry_rec_payment_handler"}

\* The registry when the import of the application starts: handlers is empty,
\* no Action subclass exists, nothing has been scheduled.
RegistryStart ==
    [handlers |-> [n \in ActionNames |-> "none"],
     classes |-> {},
     phase |-> "import",
     scheduled |-> {}]

\* Python's None, for an argument or a field that is absent.
None == -1

AdvanceServiceState == [UNUSED |-> 1, IN_PROGRESS |-> 2, NOTIFIED |-> 3]

\* user.extra_data: the two "recovered" flags ("unset" while the key is
\* absent) and the advance-service state.
NoExtraData ==
    [failed_recurrent_recovered |-> "unset",
     failed_extra_recovered |-> "unset",
     advance_service_state |-> AdvanceServiceState.UNUSED]

\* The billing state before any user has subscribed.
BillingStart ==
    [today |-> 0,
     subscription |-> [u \in Users |-> FALSE],
     plans |-> [u \in Users |-> {}],
     extra_data |-> [u \in Users |-> NoExtraData],
     rows |-> <<>>,
     sweep |-> {}]

\* The typed actions of billing_actions.py with their declared fields
\* (dataclasses.fields(cls)), in the order of declaration.
ActionFields ==
    [RecurrentPaymentAction |-> {"user_id", "retries_left"},
     ExtraPlanPaymentRetryAction |-> {"user_id", "retries_left", "deadline"},
     ExtraPlanResetAction |-> {"user_id"},
     KickInactiveAction |-> {"user_id"}]

TypedActions == DOMAIN ActionFields

\* Python values of the fields: an int or a str.
PyInt(n) == [type |-> "int", int |-> n, str |-> ""]
PyStr(s) == [type |-> "str", int |-> 0, str |-> s]

\* An empty dict, no object.
EmptyDict == [n \in {} |-> PyInt(0)]
NoObject == [cls |-> "", fields |-> EmptyDict]

\* Nothing has been constructed, stored or handled.
TypedStart ==
    [phase |-> "new", a |-> NoObject, args |-> EmptyDict, kwargs |-> EmptyDict,
     handler |-> "", result |-> [raised |-> "", obj |-> NoObject]]

\* The contexts a ContextVar has a value in: the one of the caller and the one
\* of a task the caller creates.
Contexts == {"main", "task"}

MaxSessions == 3         \* sessions the sessionmaker hands out
MaxDepth == 2            \* session() blocks open inside one another in a context

SessionIds == 1..MaxSessions

\* _cur_session.get(None) of a context in which no session has been set.
NoSession == 0

\* No session has been made, no block is open, no task has been created.
SessionsStart ==
    [cur_session |-> [c \in Contexts |-> NoSession],
     state |-> [s \in SessionIds |-> "unused"],
     blocks |-> [c \in Contexts |-> <<>>],
     task_created |-> FALSE]

VARIABLES
    store,            \* committed scheduled_actions rows, by id
    pending_rows,     \* rows inserted (flushed) by a session that has not committed
    next_id,          \* the id sequence of scheduled_actions
    tx,               \* the callers' open sessions: inserted ids, ids set done
    tasks,            \* asyncio tasks of this process, by (id, origin)
    scheduled_tasks,  \* the module-level dict id -> task (the origin names the task)
    pc,               \* scheduler.run(): "down", "init", "loaded", "idle"
    actions,          \* the ids run()'s query returned
    now,              \* the clock
    epoch,            \* number of process starts so far
    billing,          \* the billing state: users, active plans, the users' action rows
    registry,         \* the handlers dict while the modules are being imported (the
                      \* scheduler above reads the finished dict, the definition handlers)
    typed,            \* a typed action on its way from the constructor through the
                      \* row's args to the handler
    sessions          \* DatabaseApi.session: _cur_session in each context, the
                      \* sessions' states, the session() blocks that are open

vars == <<store, pending_rows, next_id, tx, tasks, scheduled_tasks, pc, actions,
          now, epoch, billing, registry, typed, sessions>>

TaskKeys == Ids \X Origins

Alive == pc # "down"

\* ------------------------------------------------------------ the session
\* The row a session of caller c sees for id: its own uncommitted insert, the
\* committed row otherwise, with done set if the session has set it.
VisibleRow(c, id) ==
    LET base == IF id \in tx[c].ins THEN pending_rows[id] ELSE store[id]
    IN  IF base.present /\ id \in tx[c].upd THEN [base EXCEPT !.done = TRUE] ELSE base

\* What a fresh session sees: committed rows only.
CommittedRow(id) == store[id]

Live(t) == t.st \in {"waiting", "running"}

\* -------------------------------------------------------------- wait_until
\* sleep((dt - now).total_seconds()): a delay that is not positive does not wait.
\* The result is the clock value at which the sleep ends.
\* Variant: no sleep at all.
wait_until_NoWait(dt, n) == n

\* Variant: the sleep takes the distance to dt, whichever side of now it is on.
wait_until_Abs(dt, n) ==
    LET delay == dt - n
    IN  IF delay <= 0 THEN n - delay ELSE n + delay

\* Variant: the sleep is one tick short of the distance to dt.
wait_until_Short(dt, n) ==
    LET delay == dt - n
    IN  IF delay <= 0 THEN n ELSE n + delay - 1

wait_until(dt, n) ==
    LET delay == dt - n
    IN  IF delay <= 0 THEN n ELSE n + delay

\* asyncio.create_task(_scheduled_action_task(id, type, time, ...)): the task
\* keeps its arguments and the clock value wait_until read when it started.
NewTask(type, dt) == [st |-> "waiting", type |-> type, dt |-> dt, at |-> now]

\* The clock value at which the task's wait_until returns.
Wake(t) == wait_until(t.dt, t.at)

\* The scheduler's part of the initial state: an empty store, a process that
\* has just started.
SchedulerInit ==
    /\ store = [i \in Ids |-> NoRow]
    /\ pending_rows = [i \in Ids |-> NoRow]
    /\ next_id = 1
    /\ tx = [c \in Callers |-> NoTx]
    /\ tasks = [k \in TaskKeys |-> NoTask]
    /\ scheduled_tasks = [i \in Ids |-> "none"]
    /\ pc = "init"
    /\ actions = {}
    /\ now = 0
    /\ epoch = 1

Init ==
    /\ SchedulerInit
    /\ billing = BillingStart
    /\ registry = RegistryStart
    /\ typed = TypedStart
    /\ sessions = SessionsStart

\* ------------------------------------------------ DatabaseApi.session
\* A caller enters `async with db.DatabaseApi().session()`: a new session with a
\* transaction of its own.  Scheduler calls made inside it (allow_reuse=True)
\* join this session; a call made outside any session is this same sequence
\* with nothing else in the transaction.
SessionBegin(c) ==
    /\ Alive
    /\ ~tx[c].open
    /\ tx' = [tx EXCEPT ![c] = [open |-> TRUE, ins |-> {}, upd |-> {}]]
    /\ UNCHANGED <<sessions, typed, billing, registry, store, pending_rows, next_id, tasks, scheduled_tasks, pc, actions,
                   now, epoch>>

\* The rows of the store after the session of caller c commits.
CommitRows(c) ==
    [i \in Ids |->
        IF i \in tx[c].ins
            THEN [pending_rows[i] EXCEPT !.done = (i \in tx[c].upd)]
        ELSE IF i \in tx[c].upd /\ store[i].present
            THEN [store[i] EXCEPT !.done = TRUE]
        ELSE store[i]]

\* The session block exits normally: session.begin() commits.
SessionCommit(c) ==
    /\ Alive
    /\ tx[c].open
    /\ store' = CommitRows(c)
    /\ pending_rows' = [i \in Ids |-> IF i \in tx[c].ins THEN NoRow ELSE pending_rows[i]]
    /\ tx' = [tx EXCEPT ![c] = NoTx]
    /\ UNCHANGED <<sessions, typed, billing, registry, next_id, tasks, scheduled_tasks, pc, actions, now, epoch>>

\* The body of the session block raises (or the commit fails): session.begin()
\* rolls the transaction back.  Nothing in memory is undone.
SessionRollback(c) ==
    /\ Alive
    /\ tx[c].open
    /\ pending_rows' = [i \in Ids |-> IF i \in tx[c].ins THEN NoRow ELSE pending_rows[i]]
    /\ tx' = [tx EXCEPT ![c] = NoTx]
    /\ UNCHANGED <<sessions, typed, billing, registry, store, next_id, tasks, scheduled_tasks, pc, actions, now, epoch>>

\* ------------------------------------------------ raw_schedule_action
\* The row raw_schedule_action builds.
NewRow(type, time) == [time |-> time, type |-> type, done |-> FALSE, present |-> TRUE]

\* session.add + flush (the sequence hands out the id), then create_task and
\* scheduled_tasks[action_id] = task, all before the session block exits.
raw_schedule_action(c, type, time) ==
    /\ Alive
    /\ tx[c].open
    /\ next_id <= MaxActions
    /\ pending_rows' = [pending_rows EXCEPT ![next_id] = NewRow(type, time)]
    /\ tx' = [tx EXCEPT ![c].ins = @ \cup {next_id}]
    /\ tasks' = [tasks EXCEPT ![<<next_id, "sched">>] = NewTask(type, time)]
    /\ scheduled_tasks' = [scheduled_tasks EXCEPT ![next_id] = "sched"]
    /\ next_id' = next_id + 1
    /\ UNCHANGED <<sessions, typed, billing, registry, store, pc, actions, now, epoch>>

\* ------------------------------------------------ raw_cancel_action
\* task.cancel(): a task waiting in wait_until is cancelled; a task suspended
\* inside its handler gets CancelledError thrown in at that await; a task that
\* has ended is left as it is.
\* Variant: a task already inside its handler is left running.
CancelTask_WaitingOnly(t) ==
    IF t.st = "waiting" THEN [t EXCEPT !.st = "cancelled"] ELSE t

CancelTask(t) ==
    IF t.st = "waiting" THEN [t EXCEPT !.st = "cancelled"]
    ELSE IF t.st = "running" THEN [t EXCEPT !.st = "interrupted"]
    ELSE t

\* The branch raw_cancel_action takes, from the row it reads and the index entry:
\* the two early returns, the `not planned` return after done was set, the cancel.
\* Variant: without the early return for a row that is already done.
CancelOutcome_NoDoneCheck(row, entry) ==
    IF ~row.present THEN "missing"
    ELSE IF entry = "none" THEN "not_planned"
    ELSE "cancelled"

CancelOutcome(row, entry) ==
    IF ~row.present THEN "missing"
    ELSE IF row.done THEN "already_done"
    ELSE IF entry = "none" THEN "not_planned"
    ELSE "cancelled"

\* What raw_cancel_action(id) leaves behind when called in the session of c:
\* the session's writes, the tasks, the index, and whether it raised (the index
\* lookup scheduled_tasks[action_id] raises KeyError on a missing key).
CancelResult(c, id) ==
    LET res == CancelOutcome(VisibleRow(c, id), scheduled_tasks[id])
        setsDone == res \in {"not_planned", "cancelled"}
        cancels == res = "cancelled"
    IN  [res |-> res,
         tx |-> IF setsDone THEN [tx EXCEPT ![c].upd = @ \cup {id}] ELSE tx,
         tasks |-> IF cancels /\ scheduled_tasks[id] # "none"
                     THEN [tasks EXCEPT ![<<id, scheduled_tasks[id]>>] = CancelTask(@)]
                     ELSE tasks,
         scheduled_tasks |-> IF cancels
                     THEN [scheduled_tasks EXCEPT ![id] = "none"]
                     ELSE scheduled_tasks,
         raised |-> cancels /\ scheduled_tasks[id] = "none"]

raw_cancel_action(c, id) ==
    /\ Alive
    /\ tx[c].open
    /\ tx' = CancelResult(c, id).tx
    /\ tasks' = CancelResult(c, id).tasks
    /\ scheduled_tasks' = CancelResult(c, id).scheduled_tasks
    /\ UNCHANGED <<sessions, typed, billing, registry, store, pending_rows, next_id, pc, actions, now, epoch>>

\* ------------------------------------------------ _scheduled_action_task
\* wait_until has returned; _perform_action looks the handler up and calls it.
\* With no handler registered it logs and returns.
\* Variant: a row whose type has no handler is marked done when it fires.
Fire_UnknownMarksDone(k) ==
    /\ Alive
    /\ tasks[k].st = "waiting"
    /\ now >= Wake(tasks[k])
    /\ tasks' = [tasks EXCEPT ![k].st =
            IF tasks[k].type \in handlers THEN "running" ELSE "finished"]
    /\ store' = IF tasks[k].type \notin handlers /\ store[k[1]].present
                  THEN [store EXCEPT ![k[1]].done = TRUE] ELSE store
    /\ UNCHANGED <<sessions, typed, billing, registry, pending_rows, next_id, tx, scheduled_tasks, pc, actions,
                   now, epoch>>

Fire(k) ==
    /\ Alive
    /\ tasks[k].st = "waiting"
    /\ now >= Wake(tasks[k])
    /\ tasks' = [tasks EXCEPT ![k].st =
            IF tasks[k].type \in handlers THEN "running" ELSE "finished"]
    /\ UNCHANGED <<sessions, typed, billing, registry, store, pending_rows, next_id, tx, scheduled_tasks, pc, actions, now,
                   epoch>>

\* The store after _perform_action's own session has set done on the row it
\* finds (a fresh session: committed rows only).
\* Variant: the flag is flipped instead of set.
MarkDone_Toggle(id) ==
    IF CommittedRow(id).present
        THEN [store EXCEPT ![id].done = ~@]
        ELSE store

MarkDone(id) ==
    IF CommittedRow(id).present
        THEN [store EXCEPT ![id].done = TRUE]
        ELSE store

\* Variant: the task takes its id out of the index when it has marked the row done.
HandlerReturn_DropsEntry(k) ==
    /\ Alive
    /\ tasks[k].st = "running"
    /\ store' = MarkDone(k[1])
    /\ tasks' = [tasks EXCEPT ![k].st = "finished"]
    /\ scheduled_tasks' = [scheduled_tasks EXCEPT ![k[1]] = "none"]
    /\ UNCHANGED <<sessions, typed, billing, registry, pending_rows, next_id, tx, pc, actions, now, epoch>>

\* The handler returns: _perform_action marks the row done in a session of its own.
HandlerReturn(k) ==
    /\ Alive
    /\ tasks[k].st = "running"
    /\ store' = MarkDone(k[1])
    /\ tasks' = [tasks EXCEPT ![k].st = "finished"]
    /\ UNCHANGED <<sessions, typed, billing, registry, pending_rows, next_id, tx, scheduled_tasks, pc, actions, now, epoch>>

\* The handler raises: _scheduled_action_task logs the exception and ends,
\* and nothing is written to the store.
\* Variant: the wrapper marks the row done after a failed run as well.
HandlerRaise_MarksDone(k) ==
    /\ Alive
    /\ tasks[k].st = "running"
    /\ store' = MarkDone(k[1])
    /\ tasks' = [tasks EXCEPT ![k].st = "failed"]
    /\ UNCHANGED <<sessions, typed, billing, registry, pending_rows, next_id, tx, scheduled_tasks, pc, actions,
                   now, epoch>>

HandlerRaise(k) ==
    /\ Alive
    /\ tasks[k].st = "running"
    /\ tasks' = [tasks EXCEPT ![k].st = "failed"]
    /\ UNCHANGED <<sessions, typed, billing, registry, store, pending_rows, next_id, tx, scheduled_tasks, pc, actions, now,
                   epoch>>

\* ------------------------------------------------ run
\* select ... where not done, in run()'s own fresh session.
\* Variant: only the rows whose time is still ahead are selected.
_get_scheduled_actions_FutureOnly ==
    {i \in Ids : store[i].present /\ ~store[i].done /\ store[i].time > now}

_get_scheduled_actions == {i \in Ids : store[i].present /\ ~store[i].done}

\* run() awaits the query.
RunLoad ==
    /\ pc = "init"
    /\ actions' = _get_scheduled_actions
    /\ pc' = "loaded"
    /\ UNCHANGED <<sessions, typed, billing, registry, store, pending_rows, next_id, tx, tasks, scheduled_tasks, now, epoch>>

\* run() resumes with the rows: one task per row, stored under the row's id.
RunArm ==
    /\ pc = "loaded"
    /\ tasks' = [k \in TaskKeys |->
            IF k[2] = "start" /\ k[1] \in actions
                THEN NewTask(store[k[1]].type, store[k[1]].time)
                ELSE tasks[k]]
    /\ scheduled_tasks' = [i \in Ids |-> IF i \in actions THEN "start" ELSE scheduled_tasks[i]]
    /\ pc' = "idle"
    /\ actions' = {}
    /\ UNCHANGED <<sessions, typed, billing, registry, store, pending_rows, next_id, tx, now, epoch>>

\* Variant: shutdown treated as cancellation, marking the armed rows done.
Shutdown_MarksDone ==
    /\ pc = "idle"
    /\ tasks' = [k \in TaskKeys |->
            IF scheduled_tasks[k[1]] = k[2] THEN CancelTask(tasks[k]) ELSE tasks[k]]
    /\ store' = [i \in Ids |->
            IF scheduled_tasks[i] # "none" /\ store[i].present
                THEN [store[i] EXCEPT !.done = TRUE] ELSE store[i]]
    /\ pc' = "down"
    /\ tx' = [c \in Callers |-> NoTx]
    /\ pending_rows' = [i \in Ids |-> NoRow]
    /\ UNCHANGED <<sessions, typed, billing, registry, next_id, scheduled_tasks, actions, now, epoch>>

\* run()'s finally cancels every task of scheduled_tasks; the process then ends,
\* and with it every session that was open.
Shutdown ==
    /\ pc = "idle"
    /\ tasks' = [k \in TaskKeys |->
            IF scheduled_tasks[k[1]] = k[2] THEN CancelTask(tasks[k]) ELSE tasks[k]]
    /\ pc' = "down"
    /\ tx' = [c \in Callers |-> NoTx]
    /\ pending_rows' = [i \in Ids |-> NoRow]
    /\ UNCHANGED <<sessions, typed, billing, registry, store, next_id, scheduled_tasks, actions, now, epoch>>

\* Variant: the crash takes the committed rows with it.
Crash_LosesStore ==
    /\ Alive
    /\ pc' = "down"
    /\ store' = [i \in Ids |-> NoRow]
    /\ tx' = [c \in Callers |-> NoTx]
    /\ pending_rows' = [i \in Ids |-> NoRow]
    /\ tasks' = [k \in TaskKeys |-> NoTask]
    /\ scheduled_tasks' = [i \in Ids |-> "none"]
    /\ actions' = {}
    /\ UNCHANGED <<sessions, typed, billing, registry, next_id, now, epoch>>

\* The process dies at any point (kill, power loss): no finally block runs.
\* Everything in memory is gone, and the database discards the transaction of
\* every session that had not committed; the committed rows stay.
Crash ==
    /\ Alive
    /\ pc' = "down"
    /\ tx' = [c \in Callers |-> NoTx]
    /\ pending_rows' = [i \in Ids |-> NoRow]
    /\ tasks' = [k \in TaskKeys |-> NoTask]
    /\ scheduled_tasks' = [i \in Ids |-> "none"]
    /\ actions' = {}
    /\ UNCHANGED <<sessions, typed, billing, registry, store, next_id, now, epoch>>

\* Variant: the index of the previous process is still there in the new one.
Boot_KeepsIndex ==
    /\ pc = "down"
    /\ epoch < MaxProcesses
    /\ epoch' = epoch + 1
    /\ pc' = "init"
    /\ tasks' = [k \in TaskKeys |-> NoTask]
    /\ UNCHANGED <<sessions, typed, billing, registry, store, pending_rows, next_id, tx, actions, now,
                   scheduled_tasks>>

\* A new process: the module-level dicts are empty, no task exists, and main()
\* starts scheduler.run() alongside the modules that serve requests.
Boot ==
    /\ pc = "down"
    /\ epoch < MaxProcesses
    /\ epoch' = epoch + 1
    /\ pc' = "init"
    /\ tasks' = [k \in TaskKeys |-> NoTask]
    /\ scheduled_tasks' = [i \in Ids |-> "none"]
    /\ UNCHANGED <<sessions, typed, billing, registry, store, pending_rows, next_id, tx, actions, now>>

\* Time passes.  A task whose sleep has elapsed runs before the clock moves on.
Tick ==
    /\ now < MaxTime
    /\ Alive => \A k \in TaskKeys : tasks[k].st = "waiting" => Wake(tasks[k]) > now
    /\ now' = now + 1
    /\ UNCHANGED <<sessions, typed, billing, registry, store, pending_rows, next_id, tx, tasks, scheduled_tasks, pc, actions,
                   epoch>>

Next ==
    \/ \E c \in Callers : SessionBegin(c)
    \/ \E c \in Callers : SessionCommit(c)
    \/ \E c \in Callers : SessionRollback(c)
    \/ \E c \in Callers, type \in ActionTypes, time \in Times : raw_schedule_action(c, type, time)
    \/ \E c \in Callers, id \in Ids : raw_cancel_action(c, id)
    \/ \E k \in TaskKeys : Fire(k)
    \/ \E k \in TaskKeys : HandlerReturn(k)
    \/ \E k \in TaskKeys : HandlerRaise(k)
    \/ RunLoad
    \/ RunArm
    \/ Shutdown
    \/ Crash
    \/ Boot
    \/ Tick

Spec == Init /\ [][Next]_vars

TypeOK ==
    /\ next_id \in 1..(MaxActions + 1)
    /\ now \in Times
    /\ epoch \in 1..MaxProcesses
    /\ pc \in {"down", "init", "loaded", "idle"}

\* ====================================================================
\* Billing: app/common/__init__.py and app/common/billing_actions.py
\* ====================================================================
\* The business operations that schedule and cancel actions.  Times are days:
\* BILLING_TIME is midnight and every period below is a whole number of days.
\* Every operation is a function from the billing state to the billing state;
\* the scheduler is used through its contract (a pending armed row fires when
\* its time has come, a cancelled row does not fire).
CHARGE_RETRIES_COUNT == 2
CHARGE_RETRY_PERIOD == 1
CHARGE_AHEAD_TIME == 1
BILLING_PERIOD == 30
AUTO_KICK_PERIOD == 30

MaxBillingActions == 5   \* rows the billing operations may schedule
MaxDay == 61             \* the last day the clock of the billing state moves to

\* plan.months of the plan the users subscribe to.
PlanMonths == 1

\* get_active_plan / get_main_active_plan found nothing.
NoPlan == [start |-> None, end |-> None, extra |-> FALSE]

BillingIds(b) == 1..Len(b.rows)

\* select ... where start <= now and now <= end.
get_active_plans(b, u) == {p \in b.plans[u] : p.start <= b.today /\ b.today <= p.end}

\* The plans get_main_active_plan may return: the query has no order, the
\* first non-extra row of its result is taken.
get_main_active_plan(b, u) ==
    IF {p \in get_active_plans(b, u) : ~p.extra} = {}
        THEN {NoPlan}
        ELSE {p \in get_active_plans(b, u) : ~p.extra}

\* The plans get_active_plan(user) may return: the first row of the result.
get_active_plan(b, u) ==
    IF get_active_plans(b, u) = {} THEN {NoPlan} ELSE get_active_plans(b, u)

\* activate_plan: the new active plan starts at the end of the current main
\* plan cur (today without one, or override_start_date) and ends BILLING_PERIOD
\* * months later (or at override_end_date).  Gives the new state and the end.
activate_plan(b, u, cur, extra, override_start_date, override_end_date) ==
    LET billing_period_start ==
            IF cur # NoPlan /\ override_start_date = None THEN cur.end
            ELSE IF override_start_date # None THEN override_start_date
            ELSE b.today
        billing_period_end ==
            IF override_end_date # None THEN override_end_date
            ELSE billing_period_start + BILLING_PERIOD * PlanMonths
    IN  [b |-> [b EXCEPT !.plans[u] = @ \cup
                    {[start |-> billing_period_start, end |-> billing_period_end,
                      extra |-> extra]}],
         end |-> billing_period_end]

\* Action.schedule -> raw_schedule_action: a new pending row with the action's
\* fields as its args, and an armed task for it.
schedule(b, u, type, time, retries_left, deadline) ==
    [b EXCEPT !.rows = Append(@,
        [user_id |-> u, type |-> type, time |-> time, retries_left |-> retries_left,
         deadline |-> deadline, done |-> FALSE, task |-> "armed"])]

\* select ... where user_id = u and type in action_types and done = false.
find_scheduled_actions(b, u, action_types) ==
    {i \in BillingIds(b) :
        /\ b.rows[i].user_id = u
        /\ b.rows[i].type \in action_types
        /\ ~b.rows[i].done}

\* raw_cancel_action for every id of ids: the row is set done, its task is
\* cancelled if it is still waiting.
cancel_actions(b, ids) ==
    [b EXCEPT !.rows = [i \in BillingIds(b) |->
        IF i \in ids
            THEN [b.rows[i] EXCEPT !.done = TRUE,
                                   !.task = IF @ = "armed" THEN "cancelled" ELSE @]
            ELSE b.rows[i]]]

cancel_billing_punishment(b, u) ==
    cancel_actions(b, find_scheduled_actions(b, u,
        {BillingActions.KickInactive, BillingActions.RecurrentPaymentRetry,
         BillingActions.ExtraPlanPaymentRetry}))

cancel_extra_punishments(b, u) ==
    cancel_actions(b, find_scheduled_actions(b, u,
        {BillingActions.ExtraPlanPaymentRetry}))

cancel_billing_actions(b, u) ==
    cancel_actions(b, find_scheduled_actions(b, u,
        {BillingActions.KickInactive, BillingActions.RecurrentPayment,
         BillingActions.RecurrentPaymentRetry, BillingActions.ExtraPlanPaymentRetry}))

subscribe(b, u, cur) ==
    LET a == activate_plan([b EXCEPT !.subscription[u] = TRUE], u, cur, FALSE, None, None)
    IN  schedule(a.b, u, BillingActions.RecurrentPayment, a.end - CHARGE_AHEAD_TIME,
                 CHARGE_RETRIES_COUNT, None)

renew_subscription(b, u, cur) ==
    LET a == activate_plan(b, u, cur, FALSE, None, None)
    IN  schedule(cancel_billing_punishment(a.b, u), u, BillingActions.RecurrentPayment,
                 a.end, CHARGE_RETRIES_COUNT, None)

\* ap: the plan get_active_plan(user) returned; the assert needs one.
activate_extra_plan(b, u, ap) ==
    LET a == activate_plan(b, u, NoPlan, TRUE, b.today, ap.end)
    IN  [cancel_extra_punishments(a.b, u) EXCEPT
            !.extra_data[u].advance_service_state = AdvanceServiceState.UNUSED]

unsubscribe(b, u, cancel_flag) ==
    LET b1 == [b EXCEPT !.subscription[u] = FALSE]
        b2 == IF cancel_flag THEN cancel_billing_actions(b1, u) ELSE b1
    IN  [b2 EXCEPT !.plans[u] = {}]

\* bill's return value: whether the service is granted.
bill_returns(b, u, has_plan, autocharge) ==
    IF ~b.subscription[u] THEN FALSE
    ELSE IF has_plan THEN TRUE
    ELSE IF ~autocharge THEN FALSE
    ELSE b.extra_data[u].advance_service_state = AdvanceServiceState.UNUSED

\* Variant: a service in advance is given whatever the advance-service state is.
bill_NoStateCheck(b, u, has_plan, autocharge) ==
    IF ~b.subscription[u] THEN b
    ELSE IF has_plan
        THEN [b EXCEPT !.extra_data[u].advance_service_state = AdvanceServiceState.UNUSED]
    ELSE IF ~autocharge THEN b
    ELSE [b EXCEPT !.extra_data[u].advance_service_state = AdvanceServiceState.IN_PROGRESS]

\* bill: with a plan that has calls or messages left the service is charged
\* to it; without one, a user with autocharge gets one service in advance.
bill(b, u, has_plan, autocharge) ==
    IF ~b.subscription[u] THEN b
    ELSE IF has_plan
        THEN [b EXCEPT !.extra_data[u].advance_service_state = AdvanceServiceState.UNUSED]
    ELSE IF ~autocharge THEN b
    ELSE IF b.extra_data[u].advance_service_state # AdvanceServiceState.UNUSED THEN b
    ELSE [b EXCEPT !.extra_data[u].advance_service_state = AdvanceServiceState.IN_PROGRESS]

\* handle_advance_service: charges the extra plan for the service given in
\* advance.  ok: the charge went through; ap: what get_active_plan returned.
\* A successful charge without an active plan fails activate_extra_plan's
\* assert, and the session rolls back.
handle_advance_service(b, u, ok, ap) ==
    IF b.extra_data[u].advance_service_state # AdvanceServiceState.IN_PROGRESS THEN b
    ELSE IF ok
        THEN IF ap = NoPlan THEN b
             ELSE [activate_extra_plan(b, u, ap) EXCEPT
                      !.extra_data[u].advance_service_state = AdvanceServiceState.NOTIFIED]
    ELSE LET plan_end == IF ap = NoPlan THEN b.today ELSE ap.end
             b1 == schedule(b, u, BillingActions.ExtraPlanPaymentRetry,
                            b.today + CHARGE_RETRY_PERIOD, CHARGE_RETRIES_COUNT, plan_end)
             b2 == schedule(b1, u, BillingActions.ExtraPlanReset, plan_end, None, None)
         IN  [b2 EXCEPT !.extra_data[u].failed_extra_recovered = "false",
                        !.extra_data[u].advance_service_state = AdvanceServiceState.NOTIFIED]

\* RecurrentPaymentAction.run for the row i (also reached through the
\* deprecated recurrent_payment_retry handler).  ok: the charge went through;
\* cur: what get_main_active_plan returned inside activate_plan.
\* Variant: a failed charge reschedules without decrementing the budget.
RecurrentPaymentAction_run_NoDecrement(b, i, ok, cur) ==
    LET r == b.rows[i]
        u == r.user_id
    IN  IF ~b.subscription[u] THEN b
        ELSE IF ok THEN
            LET a == activate_plan(b, u, cur, FALSE, None, None)
                b1 == schedule(a.b, u, BillingActions.RecurrentPayment, a.end,
                               CHARGE_RETRIES_COUNT, None)
            IN  [b1 EXCEPT !.extra_data[u].failed_recurrent_recovered = "true"]
        ELSE
            LET b1 == IF r.retries_left > 0
                        THEN schedule(b, u, BillingActions.RecurrentPayment,
                                      r.time + CHARGE_RETRY_PERIOD, r.retries_left, None)
                        ELSE schedule(b, u, BillingActions.KickInactive,
                                      r.time + AUTO_KICK_PERIOD, None, None)
            IN  [b1 EXCEPT !.extra_data[u].failed_recurrent_recovered = "false"]

\* Variant: a successful charge keeps the budget the action came with.
RecurrentPaymentAction_run_KeepsBudget(b, i, ok, cur) ==
    LET r == b.rows[i]
        u == r.user_id
    IN  IF ~b.subscription[u] THEN b
        ELSE IF ok THEN
            LET a == activate_plan(b, u, cur, FALSE, None, None)
                b1 == schedule(a.b, u, BillingActions.RecurrentPayment, a.end,
                               r.retries_left, None)
            IN  [b1 EXCEPT !.extra_data[u].failed_recurrent_recovered = "true"]
        ELSE
            LET b1 == IF r.retries_left > 0
                        THEN schedule(b, u, BillingActions.RecurrentPayment,
                                      r.time + CHARGE_RETRY_PERIOD, r.retries_left - 1, None)
                        ELSE schedule(b, u, BillingActions.KickInactive,
                                      r.time + AUTO_KICK_PERIOD, None, None)
            IN  [b1 EXCEPT !.extra_data[u].failed_recurrent_recovered = "false"]

RecurrentPaymentAction_run(b, i, ok, cur) ==
    LET r == b.rows[i]
        u == r.user_id
    IN  IF ~b.subscription[u] THEN b
        ELSE IF ok THEN
            LET a == activate_plan(b, u, cur, FALSE, None, None)
                b1 == schedule(a.b, u, BillingActions.RecurrentPayment, a.end,
                               CHARGE_RETRIES_COUNT, None)
            IN  [b1 EXCEPT !.extra_data[u].failed_recurrent_recovered = "true"]
        ELSE
            LET b1 == IF r.retries_left > 0
                        THEN schedule(b, u, BillingActions.RecurrentPayment,
                                      r.time + CHARGE_RETRY_PERIOD, r.retries_left - 1, None)
                        ELSE schedule(b, u, BillingActions.KickInactive,
                                      r.time + AUTO_KICK_PERIOD, None, None)
            IN  [b1 EXCEPT !.extra_data[u].failed_recurrent_recovered = "false"]

\* ExtraPlanPaymentRetryAction.run for the row i, up to the end of its session
\* block.  Past the deadline it returns at once.
\* Variant: a failed charge reschedules with the budget it came with.
ExtraPlanPaymentRetryAction_run_NoDecrement(b, i, ok, ap) ==
    LET r == b.rows[i]
        u == r.user_id
    IN  IF b.today > r.deadline THEN b
        ELSE IF ok THEN activate_extra_plan(b, u, ap)
        ELSE IF r.retries_left > 0
            THEN schedule(b, u, BillingActions.ExtraPlanPaymentRetry,
                          r.time + CHARGE_RETRY_PERIOD, r.retries_left, r.deadline)
        ELSE b

ExtraPlanPaymentRetryAction_run(b, i, ok, ap) ==
    LET r == b.rows[i]
        u == r.user_id
    IN  IF b.today > r.deadline THEN b
        ELSE IF ok THEN activate_extra_plan(b, u, ap)
        ELSE IF r.retries_left > 0
            THEN schedule(b, u, BillingActions.ExtraPlanPaymentRetry,
                          r.time + CHARGE_RETRY_PERIOD, r.retries_left - 1, r.deadline)
        ELSE b

ExtraPlanResetAction_run(b, i) ==
    [b EXCEPT !.extra_data[b.rows[i].user_id].advance_service_state =
                  AdvanceServiceState.UNUSED]

\* KickInactiveAction.run for the row i: unsubscribe without cancelling, and a
\* task that will cancel the user's billing actions ten seconds later.
KickInactiveAction_run(b, i) ==
    LET u == b.rows[i].user_id
    IN  IF ~b.subscription[u] THEN b
        ELSE [unsubscribe(b, u, FALSE) EXCEPT !.sweep = @ \cup {u}]

\* _perform_action after the handler of row i returned: the row is marked done.
perform_done(b, i) == [b EXCEPT !.rows[i].done = TRUE, !.rows[i].task = "ended"]

\* The handler of row i raised, or was cancelled at an await: its session
\* rolled back, the task is over and the row is as it was.
perform_raised(b, i) == [b EXCEPT !.rows[i].task = "ended"]

\* The row i is due: its task is armed and its time has come.
Due(b, i, types) ==
    /\ i \in BillingIds(b)
    /\ b.rows[i].type \in types
    /\ b.rows[i].task = "armed"
    /\ b.rows[i].time <= b.today

\* The billing state changes to b2; the scheduler process is left as it is.
BillingStep(b2) ==
    /\ Len(b2.rows) <= MaxBillingActions
    /\ billing' = b2
    /\ UNCHANGED <<sessions, typed, store, pending_rows, next_id, tx, tasks, scheduled_tasks, pc, actions,
                   now, epoch, registry>>

\* A user without a subscription subscribes (change_subscription, the payment
\* handlers); subscribe asserts that there is no subscription.
Subscribe(u) ==
    /\ ~billing.subscription[u]
    /\ \E cur \in get_main_active_plan(billing, u) : BillingStep(subscribe(billing, u, cur))

\* A payment made by the user for the plan arrives (the pay notification of
\* cloudpayments/handlers.py, the retry button of telegram/main.py): the
\* subscription is renewed and the caller sets the recovered marker.
RenewSubscription(u) ==
    /\ billing.subscription[u]
    /\ \E cur \in get_main_active_plan(billing, u) :
          BillingStep([renew_subscription(billing, u, cur) EXCEPT
                          !.extra_data[u].failed_recurrent_recovered = "true"])

Unsubscribe(u) ==
    /\ billing.subscription[u]
    /\ BillingStep(unsubscribe(billing, u, TRUE))

\* The user pays for an extra plan by hand (pay notification, retry button):
\* the extra plan is activated and the caller sets the recovered marker.
ActivateExtraPlan(u) ==
    /\ billing.subscription[u]
    /\ \E ap \in get_active_plan(billing, u) :
          /\ ap # NoPlan
          /\ BillingStep([activate_extra_plan(billing, u, ap) EXCEPT
                            !.extra_data[u].failed_extra_recovered = "true"])

\* A call or a message is billed.
Bill(u) ==
    \E has_plan, autocharge \in BOOLEAN :
        /\ has_plan => get_active_plans(billing, u) # {}
        /\ bill(billing, u, has_plan, autocharge) # billing
        /\ BillingStep(bill(billing, u, has_plan, autocharge))

HandleAdvanceService(u) ==
    \E ok \in BOOLEAN, ap \in get_active_plan(billing, u) :
        /\ billing.extra_data[u].advance_service_state = AdvanceServiceState.IN_PROGRESS
        /\ BillingStep(handle_advance_service(billing, u, ok, ap))

\* A recurrent payment row fires; the wrapper marks it done after the handler.
RunRecurrentPayment(i) ==
    /\ Due(billing, i, {BillingActions.RecurrentPayment, BillingActions.RecurrentPaymentRetry})
    /\ \E ok \in BOOLEAN, cur \in get_main_active_plan(billing, billing.rows[i].user_id) :
          BillingStep(perform_done(RecurrentPaymentAction_run(billing, i, ok, cur), i))

\* An extra plan retry row fires.  After a successful charge the handler has
\* cancelled its own row and task through cancel_extra_punishments: the
\* CancelledError arrives at the commit of the handler's session, which either
\* still commits or rolls back.  Without an active plan the assert of
\* activate_extra_plan fails and the session rolls back.
RunExtraPlanPaymentRetry(i) ==
    /\ Due(billing, i, {BillingActions.ExtraPlanPaymentRetry})
    /\ \E ok, commits \in BOOLEAN, ap \in get_active_plan(billing, billing.rows[i].user_id) :
          IF ok /\ billing.today <= billing.rows[i].deadline
              THEN IF ap # NoPlan /\ commits
                      THEN BillingStep(perform_raised(
                               ExtraPlanPaymentRetryAction_run(billing, i, ok, ap), i))
                      ELSE BillingStep(perform_raised(billing, i))
              ELSE BillingStep(perform_done(
                       ExtraPlanPaymentRetryAction_run(billing, i, ok, ap), i))

RunExtraPlanReset(i) ==
    /\ Due(billing, i, {BillingActions.ExtraPlanReset})
    /\ BillingStep(perform_done(ExtraPlanResetAction_run(billing, i), i))

RunKickInactive(i) ==
    /\ Due(billing, i, {BillingActions.KickInactive})
    /\ BillingStep(perform_done(KickInactiveAction_run(billing, i), i))

\* cancel_billing_actions_delayed, the task KickInactiveAction.run leaves
\* behind.  The task is created in the context of the kick's own task after the
\* handler's session block has exited, so _cur_session is what that task
\* inherited when it was created: the session that scheduled or loaded the kick,
\* closed long ago.  cancel_billing_actions and raw_cancel_action ask for
\* session(allow_reuse=True) and get that session, which nobody commits: the
\* tasks are cancelled, the rows' done = True never reaches the store.
cancel_billing_actions_delayed(b, u) ==
    LET c == cancel_billing_actions(b, u)
    IN  [c EXCEPT !.rows = [i \in BillingIds(b) |->
                               [c.rows[i] EXCEPT !.done = b.rows[i].done]],
                  !.sweep = @ \ {u}]

CancelBillingActionsDelayed(u) ==
    /\ u \in billing.sweep
    /\ BillingStep(cancel_billing_actions_delayed(billing, u))

\* The days on which something changes by itself: an armed row falls due, an
\* active plan has ended.
EventDays(b) ==
    {b.rows[i].time : i \in {j \in BillingIds(b) : b.rows[j].task = "armed"}}
        \cup UNION {{p.end + 1 : p \in b.plans[u]} : u \in Users}

\* Time passes up to the next such day, within the days looked at.  A row that
\* is due fires first.
NextDay ==
    /\ \A i \in BillingIds(billing) :
          billing.rows[i].task = "armed" => billing.rows[i].time > billing.today
    /\ \E d \in EventDays(billing) :
          /\ d > billing.today
          /\ d <= MaxDay
          /\ \A e \in EventDays(billing) : e > billing.today => d <= e
          /\ BillingStep([billing EXCEPT !.today = d])

InitBilling ==
    /\ SchedulerInit
    /\ billing = BillingStart
    /\ registry = RegistryStart
    /\ typed = TypedStart
    /\ sessions = SessionsStart

NextBilling ==
    \/ \E u \in Users : Subscribe(u)
    \/ \E u \in Users : RenewSubscription(u)
    \/ \E u \in Users : Unsubscribe(u)
    \/ \E u \in Users : ActivateExtraPlan(u)
    \/ \E u \in Users : Bill(u)
    \/ \E u \in Users : HandleAdvanceService(u)
    \/ \E i \in 1..MaxBillingActions : RunRecurrentPayment(i)
    \/ \E i \in 1..MaxBillingActions : RunExtraPlanPaymentRetry(i)
    \/ \E i \in 1..MaxBillingActions : RunExtraPlanReset(i)
    \/ \E i \in 1..MaxBillingActions : RunKickInactive(i)
    \/ \E u \in Users : CancelBillingActionsDelayed(u)
    \/ NextDay

SpecBilling == InitBilling /\ [][NextBilling]_vars

\* ====================================================================
\* Registration of handlers: Action.__init_subclass__, raw_action_handler
\* ====================================================================
\* class cls(Action, action_name=...): a name already in handlers raises
\* ValueError out of the class statement, which ends the import; otherwise the
\* class gets its name and its do_handle is stored.
\* Variant: no check, the new class replaces the registered handler.
__init_subclass___Overwrites(reg, cls, action_name) ==
    [reg EXCEPT !.handlers[action_name] = cls, !.classes = @ \cup {cls}]

__init_subclass__(reg, cls, action_name) ==
    IF reg.handlers[action_name] # "none"
        THEN [reg EXCEPT !.phase = "failed"]
        ELSE [reg EXCEPT !.handlers[action_name] = cls, !.classes = @ \cup {cls}]

\* @raw_action_handler(action_type) on func: stored without a check.
raw_action_handler(reg, action_type, func) ==
    [reg EXCEPT !.handlers[action_type] = func]

\* The registry changes to reg; the rest is left as it is.
RegistryStep(reg) ==
    /\ registry' = reg
    /\ UNCHANGED <<sessions, typed, store, pending_rows, next_id, tx, tasks, scheduled_tasks, pc, actions,
                   now, epoch, billing>>

\* A class statement is executed during the import.
DefineAction(cls, action_name) ==
    /\ registry.phase = "import"
    /\ cls \notin registry.classes
    /\ RegistryStep(__init_subclass__(registry, cls, action_name))

\* A decorated function definition is executed during the import.
DecorateHandler(action_type, func) ==
    /\ registry.phase = "import"
    /\ RegistryStep(raw_action_handler(registry, action_type, func))

\* The imports are through; main() starts the modules and scheduler.run().
ImportDone ==
    /\ registry.phase = "import"
    /\ RegistryStep([registry EXCEPT !.phase = "running"])

\* cls(...).schedule(time) in the running application: the class exists.
ScheduleAction(cls) ==
    /\ registry.phase = "running"
    /\ cls \in registry.classes
    /\ RegistryStep([registry EXCEPT !.scheduled = @ \cup {cls}])

InitRegistry ==
    /\ SchedulerInit
    /\ billing = BillingStart
    /\ registry = RegistryStart
    /\ typed = TypedStart
    /\ sessions = SessionsStart

NextRegistry ==
    \/ \E cls \in ActionClasses, n \in ActionNames : DefineAction(cls, n)
    \/ \E n \in ActionNames, func \in RawHandlers : DecorateHandler(n, func)
    \/ ImportDone
    \/ \E cls \in ActionClasses : ScheduleAction(cls)

SpecRegistry == InitRegistry /\ [][NextRegistry]_vars

\* ====================================================================
\* Store failures: the database raises inside a scheduler operation
\* ====================================================================
\* run()'s query raises.  No try block is around it (the try of run() starts
\* after the tasks are created), so the exception leaves run(); run_module logs
\* and re-raises it, the gather in main() raises and the process ends.
RunLoadFails ==
    /\ pc = "init"
    /\ pc' = "down"
    /\ tx' = [c \in Callers |-> NoTx]
    /\ pending_rows' = [i \in Ids |-> NoRow]
    /\ tasks' = [k \in TaskKeys |-> NoTask]
    /\ scheduled_tasks' = [i \in Ids |-> "none"]
    /\ actions' = {}
    /\ UNCHANGED <<sessions, typed, billing, registry, store, next_id, now, epoch>>

\* session.flush() raises inside raw_schedule_action, called in a session that
\* has inserted nothing before: create_task and the index assignment after it
\* are not reached; the exception leaves the session block, which rolls back.
ScheduleFlushFails(c) ==
    /\ next_id <= MaxActions
    /\ tx[c].ins = {}
    /\ SessionRollback(c)

\* The commit at the exit of the session block raw_schedule_action inserted in
\* raises: the insert is rolled back and the exception goes to the caller,
\* after create_task and the index assignment have been executed.
ScheduleCommitFails(c) ==
    /\ tx[c].ins # {}
    /\ SessionRollback(c)

\* The session of _perform_action raises (the select or the commit of
\* done = True) after the handler has returned: the exception leaves
\* _perform_action, the bare except of _scheduled_action_task logs it, and the
\* task ends; the row keeps done = False.
MarkDoneFails(k) ==
    /\ Alive
    /\ tasks[k].st = "running"
    /\ tasks' = [tasks EXCEPT ![k].st = "store_failed"]
    /\ UNCHANGED <<sessions, typed, billing, registry, store, pending_rows, next_id, tx, scheduled_tasks, pc,
                   actions, now, epoch>>

NextFaults ==
    \/ \E c \in Callers : SessionBegin(c)
    \/ \E c \in Callers : SessionCommit(c)
    \/ \E c \in Callers, type \in ActionTypes, time \in Times : raw_schedule_action(c, type, time)
    \/ \E k \in TaskKeys : Fire(k)
    \/ \E k \in TaskKeys : HandlerReturn(k)
    \/ RunLoad
    \/ RunArm
    \/ Boot
    \/ Tick
    \/ RunLoadFails
    \/ \E c \in Callers : ScheduleFlushFails(c)
    \/ \E c \in Callers : ScheduleCommitFails(c)
    \/ \E k \in TaskKeys : MarkDoneFails(k)

SpecFaults == Init /\ [][NextFaults]_vars

\* ====================================================================
\* Typed actions: Action.serialize, Action.deserialize, do_handle
\* ====================================================================
\* The values a field may be given by the callers of the constructors.
MaxUserId == 2
Deadlines == {"2023-01-31T00:00:00", "2023-03-02T00:00:00"}

FieldValues(name) ==
    IF name = "deadline" THEN {PyStr(d) : d \in Deadlines}
    ELSE IF name = "retries_left" THEN {PyInt(n) : n \in 0..CHARGE_RETRIES_COUNT}
    ELSE {PyInt(n) : n \in 1..MaxUserId}

PyValues == UNION {FieldValues(name) : name \in UNION {ActionFields[c] : c \in TypedActions}}

\* cls(**data) with every declared field given: the instances of cls.
Instances(cls) ==
    {[cls |-> cls, fields |-> f] :
        f \in {g \in [ActionFields[cls] -> PyValues] :
                  \A name \in ActionFields[cls] : g[name] \in FieldValues(name)}}

\* dataclasses.asdict(self): a dict of the fields' names and values; the class
\* is not part of it.
serialize(a) == [name \in DOMAIN a.fields |-> a.fields[name]]

\* The JSON column of scheduled_actions: an int is written as a number, a str
\* as a string, and read back as such.
json_dumps(d) ==
    [name \in DOMAIN d |->
        IF d[name].type = "int"
            THEN [json |-> "number", int |-> d[name].int, str |-> ""]
            ELSE [json |-> "string", int |-> 0, str |-> d[name].str]]

json_loads(j) ==
    [name \in DOMAIN j |->
        IF j[name].json = "number" THEN PyInt(j[name].int) ELSE PyStr(j[name].str)]

\* Action.deserialize: the assert on every key of data, then cls(**data), which
\* raises TypeError when a declared field (none has a default) is missing.
\* Variant: keys that are not fields of cls are dropped.
deserialize_DropsUnknown(cls, data) ==
    LET known == [name \in DOMAIN data \cap ActionFields[cls] |-> data[name]]
    IN  IF DOMAIN known # ActionFields[cls]
            THEN [raised |-> "TypeError", obj |-> NoObject]
            ELSE [raised |-> "none", obj |-> [cls |-> cls, fields |-> known]]

deserialize(cls, data) ==
    IF \E name \in DOMAIN data : name \notin ActionFields[cls]
        THEN [raised |-> "AssertionError", obj |-> NoObject]
    ELSE IF DOMAIN data # ActionFields[cls]
        THEN [raised |-> "TypeError", obj |-> NoObject]
    ELSE [raised |-> "none", obj |-> [cls |-> cls, fields |-> data]]

\* do_handle(dt, **kwargs) of cls: cls.deserialize(kwargs).run(dt); gives the
\* object run is called on, or what was raised before.
do_handle(cls, kwargs) == deserialize(cls, kwargs)

\* The typed action changes to t; the rest is left as it is.
TypedStep(t) ==
    /\ typed' = t
    /\ UNCHANGED <<sessions, store, pending_rows, next_id, tx, tasks, scheduled_tasks, pc, actions,
                   now, epoch, billing, registry>>

\* A caller constructs a typed action.
Construct(a) ==
    /\ typed.phase = "new"
    /\ TypedStep([typed EXCEPT !.phase = "constructed", !.a = a])

\* a.schedule(time): raw_schedule_action(get_name(), time, **serialize()) puts
\* the kwargs into the row's args and hands them to the task it creates.
Schedule ==
    /\ typed.phase = "constructed"
    /\ TypedStep([typed EXCEPT !.phase = "scheduled",
                               !.args = json_dumps(serialize(typed.a)),
                               !.kwargs = serialize(typed.a)])

\* A later process: run() creates the task from what the row holds.
Reload ==
    /\ typed.phase = "scheduled"
    /\ TypedStep([typed EXCEPT !.phase = "loaded",
                               !.kwargs = json_loads(typed.args)])

\* The task calls the handler registered under the row's type, the do_handle
\* of cls, with its kwargs.  The class is the one that scheduled the row unless
\* the name was given to another class since the row was written.
Handle(cls) ==
    /\ typed.phase \in {"scheduled", "loaded"}
    /\ TypedStep([typed EXCEPT !.phase = "handled", !.handler = cls,
                               !.result = do_handle(cls, typed.kwargs)])

InitTyped ==
    /\ SchedulerInit
    /\ billing = BillingStart
    /\ registry = RegistryStart
    /\ typed = TypedStart
    /\ sessions = SessionsStart

NextTyped ==
    \/ \E cls \in TypedActions : \E a \in Instances(cls) : Construct(a)
    \/ Schedule
    \/ Reload
    \/ \E cls \in TypedActions : Handle(cls)

SpecTyped == InitTyped /\ [][NextTyped]_vars

\* ====================================================================
\* DatabaseApi.session and _cur_session: app/db/interface.py
\* ====================================================================
\* The session() blocks of a context are open inside one another, the last of
\* blocks[c] being the innermost.  A block is what one call of session() left:
\* the session it yielded, whether the call made that session itself (new) or
\* took the current one, its autocommit argument, and for a new session the
\* token of _cur_session.set, which holds the value before the set.
SessionBlock(s, new, autocommit, token) ==
    [session |-> s, new |-> new, autocommit |-> autocommit, token |-> token]

\* The session the sessionmaker hands out next.
NextSession(d) == CHOOSE s \in SessionIds :
    d.state[s] = "unused" /\ \A t \in SessionIds : d.state[t] = "unused" => s <= t

\* session(autocommit, allow_reuse) up to its yield, called in context c: with
\* allow_reuse and a current session that session is yielded as it is;
\* otherwise a new session is made, set as the current one, and begun.
session_enter(d, c, autocommit, allow_reuse) ==
    LET cur == d.cur_session[c]
        s == NextSession(d)
    IN  IF allow_reuse /\ cur # NoSession
            THEN [d EXCEPT !.blocks[c] = Append(@, SessionBlock(cur, FALSE, autocommit, NoSession))]
            ELSE [d EXCEPT !.state[s] = "open",
                           !.cur_session[c] = s,
                           !.blocks[c] = Append(@, SessionBlock(s, TRUE, autocommit, cur))]

\* The innermost block of context c and the blocks around it.
Innermost(d, c) == d.blocks[c][Len(d.blocks[c])]
Outer(d, c) == SubSeq(d.blocks[c], 1, Len(d.blocks[c]) - 1)

\* The body of the innermost block of c ends: session() continues after its
\* yield.  For a reused session it returns (the commit is commented out).  For
\* a new one session.begin() commits if autocommit, the sessionmaker's block
\* closes the session, and _cur_session.reset(token) puts the old value back.
session_exit(d, c) ==
    LET b == Innermost(d, c)
    IN  IF ~b.new
            THEN [d EXCEPT !.blocks[c] = Outer(d, c)]
            ELSE [d EXCEPT !.state[b.session] = IF b.autocommit THEN "committed" ELSE "closed",
                           !.cur_session[c] = b.token,
                           !.blocks[c] = Outer(d, c)]

\* The body of the innermost block of c raises: the exception is thrown into
\* session() at its yield.  session.begin() rolls back, the sessionmaker's
\* block closes the session, and the exception leaves session() before
\* _cur_session.reset(token), which is not in a finally, is reached.
session_raise(d, c) ==
    LET b == Innermost(d, c)
    IN  IF ~b.new
            THEN [d EXCEPT !.blocks[c] = Outer(d, c)]
            ELSE [d EXCEPT !.state[b.session] = "rolled_back",
                           !.blocks[c] = Outer(d, c)]

\* asyncio.create_task: the task runs in a copy of the creating context.
create_task(d) ==
    [d EXCEPT !.task_created = TRUE, !.cur_session["task"] = d.cur_session["main"]]

\* The context c exists.
Runs(c) == c = "main" \/ sessions.task_created

SessionsStep(d2) ==
    /\ sessions' = d2
    /\ UNCHANGED <<typed, billing, registry, store, pending_rows, next_id, tx, tasks,
                   scheduled_tasks, pc, actions, now, epoch>>

\* Code running in context c enters `async with DatabaseApi().session(...)`.
EnterSession(c) ==
    /\ Runs(c)
    /\ Len(sessions.blocks[c]) < MaxDepth
    /\ \E autocommit, allow_reuse \in BOOLEAN :
          /\ (allow_reuse /\ sessions.cur_session[c] # NoSession)
                \/ \E s \in SessionIds : sessions.state[s] = "unused"
          /\ SessionsStep(session_enter(sessions, c, autocommit, allow_reuse))

\* The innermost block of c is left at the end of its body.
ExitSession(c) ==
    /\ Runs(c)
    /\ sessions.blocks[c] # <<>>
    /\ SessionsStep(session_exit(sessions, c))

\* The innermost block of c is left by an exception of its body.
RaiseInSession(c) ==
    /\ Runs(c)
    /\ sessions.blocks[c] # <<>>
    /\ SessionsStep(session_raise(sessions, c))

\* The caller creates a task (raw_schedule_action, scheduler.run,
\* KickInactiveAction.run).
CreateTask ==
    /\ ~sessions.task_created
    /\ SessionsStep(create_task(sessions))

InitSessions ==
    /\ SchedulerInit
    /\ billing = BillingStart
    /\ registry = RegistryStart
    /\ typed = TypedStart
    /\ sessions = SessionsStart

NextSessions ==
    \/ \E c \in Contexts : EnterSession(c)
    \/ \E c \in Contexts : ExitSession(c)
    \/ \E c \in Contexts : RaiseInSession(c)
    \/ CreateTask

SpecSessions == InitSessions /\ [][NextSessions]_vars

\* ====================================================================
\* Properties
\* ====================================================================
Pending(id) == store[id].present /\ ~store[id].done
Done(id) == store[id].present /\ store[id].done

\* The handler has been invoked by task t (it is running, was interrupted in
\* the middle, raised, or ended after a registered handler ran).
Fired(t) ==
    \/ t.st \in {"running", "interrupted", "failed"}
    \/ t.st = "finished" /\ t.type \in handlers

\* The row of id was scheduled by an earlier process: it is in the store and
\* this process has never armed a task for it from raw_schedule_action.
ScheduledEarlier(id) == store[id].present /\ tasks[<<id, "sched">>].st = "none"

\* No scheduler operation is in the middle of a transition.
Quiescent ==
    /\ pc = "idle"
    /\ \A c \in Callers : ~tx[c].open
    /\ \A k \in TaskKeys : tasks[k].st # "running"

\* C1: a row is inserted with done = false, and a committed row whose done flag
\* is true keeps it true in every later state, whatever operation runs.
C1_DoneTerminal ==
    [][ /\ \A i \in Ids : Done(i) => Done(i)'
        /\ \A i \in Ids : (~pending_rows[i].present /\ pending_rows'[i].present)
                              => ~pending_rows'[i].done ]_vars

\* C1 witness: a row that became done in one process is still done in the next
\* process after start has loaded the store.
C1_Witness == \E i \in Ids : Done(i) /\ epoch = 2 /\ pc = "idle" /\ ScheduledEarlier(i)

\* C2 (as claimed): for every id at most one task of the process is live.
C2_OneTaskPerId ==
    \A i \in Ids : ~(Live(tasks[<<i, "sched">>]) /\ Live(tasks[<<i, "start">>]))

\* C3 (as claimed): when no operation is in progress and start has run, an id
\* is in the index exactly when its row is pending.
C3_IndexMatchesPending ==
    Quiescent => \A i \in Ids :
        store[i].present => ((scheduled_tasks[i] # "none") <=> Pending(i))

\* C4 (as claimed): the handler of a row whose done flag is true is never started.
C4_NoFireAfterDone ==
    [][ \A k \in TaskKeys :
            (tasks[k].st = "waiting" /\ tasks'[k].st = "running") => ~Done(k[1]) ]_vars

\* C5: a committed row scheduled by an earlier process, of a registered type
\* and not cancelled in this process, is armed again by start; while the clock
\* is before its time its task waits for exactly that time, the task does not
\* stay waiting once the time is reached, and its handler is not invoked
\* earlier: the one task the process has for it fires once, at the row's time.
C5_FiresOnceAfterRestart ==
    \A i \in Ids :
        LET t == tasks[<<i, "start">>] IN
        (Alive /\ ScheduledEarlier(i) /\ store[i].type \in handlers
               /\ t.st \notin {"cancelled", "interrupted"}) =>
            /\ (pc = "idle" /\ Pending(i)) => t.st # "none"
            /\ t.st # "none" => (t.dt = store[i].time /\ t.type = store[i].type)
            /\ t.st = "waiting" => now <= Wake(t)
            /\ (t.st # "none" /\ t.at <= t.dt) => Wake(t) = t.dt
            /\ Fired(t) => now >= t.dt

\* C5 witness: a row scheduled by the first process has been fired at its time
\* by the task the second process armed for it before that time, and is done.
C5_Witness ==
    \E i \in Ids :
        /\ epoch = 2 /\ pc = "idle" /\ ScheduledEarlier(i) /\ Done(i)
        /\ tasks[<<i, "start">>].st = "finished"
        /\ tasks[<<i, "start">>].type \in handlers
        /\ tasks[<<i, "start">>].at < store[i].time
        /\ now = store[i].time

\* C6: a task that start armed for a row whose time had already passed is due
\* at once: while it is still waiting the clock has not moved past the moment
\* it was armed, and every pending row start loaded has such a task.
C6_OverdueFiresImmediately ==
    \A i \in Ids :
        LET t == tasks[<<i, "start">>] IN
        /\ (Alive /\ t.st = "waiting" /\ t.dt < t.at) => (Wake(t) = t.at /\ now = t.at)
        /\ (pc = "idle" /\ ScheduledEarlier(i) /\ Pending(i)) => t.st # "none"

\* C6 witness: the handler of a row loaded after its time is running, and the
\* clock still shows the moment start armed it.
C6_Witness ==
    \E i \in Ids :
        /\ ScheduledEarlier(i)
        /\ tasks[<<i, "start">>].st = "running"
        /\ tasks[<<i, "start">>].dt < tasks[<<i, "start">>].at
        /\ now = tasks[<<i, "start">>].at

\* C7: raw_cancel_action never raises, and called for an id the session sees
\* no row for, or sees a done row for (completed, cancelled before, or
\* cancelled a moment ago in the same session), it changes neither the
\* session's writes nor the tasks nor the index.
C7_CancelIdempotent ==
    \A c \in Callers, i \in Ids :
        (Alive /\ tx[c].open) =>
            /\ ~CancelResult(c, i).raised
            /\ (~VisibleRow(c, i).present \/ VisibleRow(c, i).done) =>
                    /\ CancelResult(c, i).tx = tx
                    /\ CancelResult(c, i).tasks = tasks
                    /\ CancelResult(c, i).scheduled_tasks = scheduled_tasks

\* C7 witness: a session that has cancelled an armed row, and a row that
\* completed naturally and still has its entry in the index.
C7_Witness ==
    \E c \in Callers, i \in Ids :
        /\ Alive /\ tx[c].open
        /\ \/ i \in tx[c].upd
           \/ Done(i) /\ scheduled_tasks[i] # "none" /\ Fired(tasks[<<i, scheduled_tasks[i]>>])

C9_ShutdownKeepsPending ==
    [][ /\ (pc = "idle" /\ pc' = "down") =>
              /\ store' = store
              /\ \A i \in Ids : scheduled_tasks[i] # "none" =>
                      ~Live(tasks'[<<i, scheduled_tasks[i]>>])
        /\ (pc = "loaded" /\ pc' = "idle") =>
              \A i \in Ids : (ScheduledEarlier(i) /\ Pending(i)) =>
                  /\ tasks'[<<i, "start">>].st = "waiting"
                  /\ scheduled_tasks'[i] = "start" ]_vars

\* C9 witness: the process has shut down while the handler of a row was
\* running and the task of another was waiting; both rows are still pending.
C9_Witness ==
    \E i, j \in Ids :
        /\ pc = "down" /\ Pending(i) /\ Pending(j)
        /\ scheduled_tasks[i] # "none" /\ scheduled_tasks[j] # "none"
        /\ tasks[<<i, scheduled_tasks[i]>>].st = "interrupted"
        /\ tasks[<<j, scheduled_tasks[j]>>].st = "cancelled"

\* C10 (as claimed): a task exists only for an action that has a row, committed
\* or still in an open session; after a rollback nothing of the action is left.
C10_NoTimerWithoutRow ==
    \A k \in TaskKeys :
        (Alive /\ (Live(tasks[k]) \/ Fired(tasks[k]))) =>
            (store[k[1]].present \/ pending_rows[k[1]].present)

\* The step is a crash: a live process is down afterwards with nothing of its
\* memory left (a shutdown leaves the cancelled tasks behind).
Crashed ==
    /\ Alive
    /\ pc' = "down"
    /\ \A k \in TaskKeys : tasks'[k] = NoTask

\* C11 (as claimed): every row raw_schedule_action has inserted survives a
\* crash at any later point, so that the next start finds it.
C11_InsertedRowSurvivesCrash ==
    [][ Crashed => \A i \in Ids : pending_rows[i].present => store'[i].present ]_vars

\* C11 (amended): a row is durable once the session that inserted it has
\* committed: a crash changes no committed row, nothing changes the store while
\* the process is down, the next start's query returns every committed pending
\* row, and start arms a task, entered in the index, for every row it loaded.
C11_CommittedRowDurable ==
    [][ /\ Crashed => store' = store
        /\ pc = "down" => store' = store
        /\ (pc = "init" /\ pc' = "loaded") => actions' = {i \in Ids : Pending(i)}
        /\ (pc = "loaded" /\ pc' = "idle") =>
              \A i \in actions :
                  /\ tasks'[<<i, "start">>].st = "waiting"
                  /\ tasks'[<<i, "start">>].dt = store[i].time
                  /\ scheduled_tasks'[i] = "start" ]_vars

\* C11 witness: the first process has crashed (no task is left, while a shutdown
\* would leave the cancelled task of the row behind), one row was committed
\* before the crash and is pending, and a row inserted later is lost.
C11_Witness ==
    /\ pc = "down" /\ epoch = 1
    /\ \A k \in TaskKeys : tasks[k] = NoTask
    /\ \E i, j \in Ids : Pending(i) /\ j < next_id /\ ~store[j].present

\* C12 (as claimed): when a registered handler has returned without raising,
\* the row of the action is done, whenever the transaction that inserted the
\* row committed.
C12_ReturnMarksDone ==
    \A k \in TaskKeys :
        (Alive /\ tasks[k].st = "finished" /\ tasks[k].type \in handlers
               /\ store[k[1]].present) => store[k[1]].done

\* C13: a handler that raises ends its own task and nothing else: the store,
\* the open sessions, the index, run() and every other task are unchanged by
\* that step; the failed task never runs on (so it never marks its row done);
\* and a waiting task whose time has come still fires before the clock moves.
C13_HandlerExceptionContained ==
    [][ /\ \A k \in TaskKeys :
              (tasks[k].st = "running" /\ tasks'[k].st = "failed") =>
                  /\ store' = store /\ pending_rows' = pending_rows /\ tx' = tx
                  /\ scheduled_tasks' = scheduled_tasks
                  /\ pc' = pc /\ pc' # "down"
                  /\ \A j \in TaskKeys : j # k => tasks'[j] = tasks[j]
        /\ \A k \in TaskKeys :
              tasks[k].st = "failed" => tasks'[k].st \in {"failed", "none"}
        /\ \A j \in TaskKeys :
              (Alive /\ tasks[j].st = "waiting" /\ Wake(tasks[j]) <= now) => now' = now ]_vars

\* C13 witness: the handler of one action has raised and its row is pending;
\* run() is in its loop, and an action due later has fired.
C13_Witness ==
    \E k, j \in TaskKeys :
        /\ pc = "idle" /\ tasks[k].st = "failed" /\ Pending(k[1])
        /\ j[1] # k[1] /\ tasks[j].st = "running" /\ tasks[j].dt > tasks[k].dt

\* C14: the step in which a handler raises leaves the row as it is, and a row
\* whose task has failed becomes done only by a cancel or by a clean return of
\* another task of the same id; the next start's query returns every pending
\* row, start arms a row whose time has passed with no wait left, and the
\* clock does not move while such a task is still waiting.
C14_RaisedRefiresAfterRestart ==
    [][ /\ \A k \in TaskKeys :
              (tasks[k].st = "running" /\ tasks'[k].st = "failed") =>
                  store'[k[1]] = store[k[1]]
        /\ \A k \in TaskKeys :
              (tasks[k].st = "failed" /\ ~Done(k[1]) /\ Done(k[1])') =>
                  \/ \E c \in Callers : tx[c].open /\ k[1] \in tx[c].upd
                  \/ \E j \in TaskKeys :
                        j # k /\ j[1] = k[1] /\ tasks[j].st = "running"
                              /\ tasks'[j].st = "finished"
        /\ (pc = "init" /\ pc' = "loaded") => \A i \in Ids : Pending(i) => i \in actions'
        /\ (pc = "loaded" /\ pc' = "idle") =>
              \A i \in actions : store[i].time <= now =>
                  /\ tasks'[<<i, "start">>].st = "waiting"
                  /\ Wake(tasks'[<<i, "start">>]) = now
        /\ \A i \in Ids :
              (Alive /\ tasks[<<i, "start">>].st = "waiting"
                     /\ tasks[<<i, "start">>].dt <= tasks[<<i, "start">>].at) => now' = now ]_vars

\* C14 witness: a row of an earlier process, loaded after its time, was fired
\* again by the second process; its handler raised and the row is still pending.
C14_Witness ==
    \E i \in Ids :
        /\ epoch = 2 /\ ScheduledEarlier(i) /\ Pending(i)
        /\ tasks[<<i, "start">>].st = "failed"
        /\ tasks[<<i, "start">>].dt < tasks[<<i, "start">>].at

\* C15: a task whose type has no registered handler never enters a handler;
\* the step in which it fires ends it and changes nothing else (store, open
\* sessions, index, run(), the other tasks); and a committed pending row of
\* such a type becomes done only by the commit of a session that cancelled it.
C15_UnknownTypeStaysPending ==
    [][ /\ \A k \in TaskKeys :
              tasks[k].type \notin handlers =>
                  tasks'[k].st \notin {"running", "interrupted", "failed"}
        /\ \A k \in TaskKeys :
              (Alive /\ tasks[k].st = "waiting" /\ tasks[k].type \notin handlers
                     /\ tasks'[k].st \notin {"waiting", "cancelled", "none"}) =>
                  /\ tasks'[k].st = "finished"
                  /\ store' = store /\ pending_rows' = pending_rows /\ tx' = tx
                  /\ scheduled_tasks' = scheduled_tasks
                  /\ pc' = pc
                  /\ \A j \in TaskKeys : j # k => tasks'[j] = tasks[j]
        /\ \A i \in Ids :
              (Pending(i) /\ store[i].type \notin handlers /\ Done(i)') =>
                  \E c \in Callers : tx[c].open /\ i \in tx[c].upd ]_vars

\* C15 witness: an action of an unregistered type has fired, its task has ended
\* and its row is pending, while the task of another action is still waiting.
C15_Witness ==
    \E k, j \in TaskKeys :
        /\ pc = "idle" /\ tasks[k].st = "finished" /\ tasks[k].type \notin handlers
        /\ Pending(k[1])
        /\ j[1] # k[1] /\ tasks[j].st = "waiting"

\* ------------------------------------------------ billing properties
\* A pending row that is the consequence of a failed payment of its user: a
\* kick, an extra plan retry, or a retry of the recurring charge (the rows
\* RecurrentPaymentAction.run schedules after a failed charge carry a budget
\* below CHARGE_RETRIES_COUNT; the deprecated retry type is one as well).
Punishment(r) ==
    /\ ~r.done
    /\ \/ r.type \in {BillingActions.KickInactive, BillingActions.ExtraPlanPaymentRetry,
                      BillingActions.RecurrentPaymentRetry}
       \/ r.type = BillingActions.RecurrentPayment /\ r.retries_left < CHARGE_RETRIES_COUNT

\* The rows an operation appended to the rows of the billing state.
NewRows(b2) == [n \in 1..(Len(b2.rows) - Len(billing.rows)) |-> b2.rows[Len(billing.rows) + n]]

\* The operation changed none of the rows that existed.
OldRowsKept(b2) ==
    /\ Len(b2.rows) >= Len(billing.rows)
    /\ \A i \in BillingIds(billing) : b2.rows[i] = billing.rows[i]

\* C16 (as claimed): after renew_subscription, and after unsubscribe, every
\* row pending for the user as a consequence of an earlier payment failure is
\* done, its task cancelled.
C16_PunishmentsCancelled ==
    \A u \in Users, i \in BillingIds(billing) :
        (billing.subscription[u] /\ billing.rows[i].user_id = u /\ Punishment(billing.rows[i])) =>
            /\ unsubscribe(billing, u, TRUE).rows[i].done
            /\ \A cur \in get_main_active_plan(billing, u) :
                  renew_subscription(billing, u, cur).rows[i].done

\* C17 (as claimed): cancel_extra_punishments(u), called while an
\* ExtraPlanResetAction of u is waiting for a time still ahead, cancels it:
\* the row is done and the task no longer armed.
C17_ResetCancelled ==
    \A u \in Users, i \in BillingIds(billing) :
        ( /\ billing.rows[i].user_id = u
          /\ billing.rows[i].type = BillingActions.ExtraPlanReset
          /\ ~billing.rows[i].done /\ billing.rows[i].task = "armed"
          /\ billing.rows[i].time > billing.today ) =>
            /\ cancel_extra_punishments(billing, u).rows[i].done
            /\ cancel_extra_punishments(billing, u).rows[i].task # "armed"

\* C18: a failed charge of a due RecurrentPaymentAction of a subscribed user
\* with budget n > 0 schedules exactly one row: the same type, same user,
\* CHARGE_RETRY_PERIOD after the failing row's time, budget n - 1; with budget
\* 0 it schedules exactly one KickInactiveAction, AUTO_KICK_PERIOD after the
\* failing row's time, and no retry.  No other row changes, and no recurrent
\* payment row ever carries a budget outside 0..CHARGE_RETRIES_COUNT.
C18_RetryBudget ==
    /\ \A i \in BillingIds(billing) :
          billing.rows[i].type = BillingActions.RecurrentPayment =>
              billing.rows[i].retries_left \in 0..CHARGE_RETRIES_COUNT
    /\ \A i \in BillingIds(billing) :
          ( /\ Due(billing, i, {BillingActions.RecurrentPayment})
            /\ billing.subscription[billing.rows[i].user_id] ) =>
              \A cur \in get_main_active_plan(billing, billing.rows[i].user_id) :
                  LET r == billing.rows[i]
                      b2 == RecurrentPaymentAction_run(billing, i, FALSE, cur)
                      new == NewRows(b2)
                  IN  /\ OldRowsKept(b2)
                      /\ Len(new) = 1
                      /\ new[1].user_id = r.user_id
                      /\ ~new[1].done /\ new[1].task = "armed"
                      /\ IF r.retries_left > 0
                            THEN /\ new[1].type = r.type
                                 /\ new[1].time = r.time + CHARGE_RETRY_PERIOD
                                 /\ new[1].retries_left = r.retries_left - 1
                            ELSE /\ new[1].type = BillingActions.KickInactive
                                 /\ new[1].time = r.time + AUTO_KICK_PERIOD

\* C18 witness: a recurrent payment with the full budget failed, its two
\* retries, each a retry period after the one before, failed as well, and the
\* third failure scheduled the kick.
C18_Witness ==
    /\ Len(billing.rows) = 4
    /\ \A i \in 1..3 :
          /\ billing.rows[i].type = BillingActions.RecurrentPayment
          /\ billing.rows[i].retries_left = CHARGE_RETRIES_COUNT - (i - 1)
          /\ billing.rows[i].done
    /\ \A i \in 1..2 : billing.rows[i + 1].time = billing.rows[i].time + CHARGE_RETRY_PERIOD
    /\ billing.rows[4].type = BillingActions.KickInactive
    /\ billing.rows[4].time = billing.rows[3].time + AUTO_KICK_PERIOD
    /\ billing.rows[4].task = "armed"

\* C19: a successful charge of a due RecurrentPaymentAction of a subscribed
\* user, whatever its budget, activates a plan that starts at the end of the
\* current main plan (today without one) and lasts the plan's billing period,
\* and schedules exactly one row: a RecurrentPaymentAction of the same user at
\* the end of that plan with budget CHARGE_RETRIES_COUNT.  No other row changes
\* (no retry, no kick).
C19_SuccessReschedules ==
    \A i \in BillingIds(billing) :
        ( /\ Due(billing, i, {BillingActions.RecurrentPayment})
          /\ billing.subscription[billing.rows[i].user_id] ) =>
            \A cur \in get_main_active_plan(billing, billing.rows[i].user_id) :
                LET r == billing.rows[i]
                    b2 == RecurrentPaymentAction_run(billing, i, TRUE, cur)
                    new == NewRows(b2)
                    start == IF cur # NoPlan THEN cur.end ELSE billing.today
                    plan == [start |-> start, end |-> start + BILLING_PERIOD * PlanMonths,
                             extra |-> FALSE]
                IN  /\ OldRowsKept(b2)
                    /\ Len(new) = 1
                    /\ b2.plans[r.user_id] = billing.plans[r.user_id] \cup {plan}
                    /\ new[1].type = BillingActions.RecurrentPayment
                    /\ new[1].user_id = r.user_id
                    /\ new[1].time = plan.end
                    /\ new[1].retries_left = CHARGE_RETRIES_COUNT
                    /\ ~new[1].done /\ new[1].task = "armed"

\* C19 witness: the charge failed twice and then went through: three runs with
\* budgets 2, 1, 0, all done, and a follow-up with the full budget at the end
\* of the plan the third run activated.
C19_Witness ==
    /\ Len(billing.rows) = 4
    /\ \A i \in 1..4 : billing.rows[i].type = BillingActions.RecurrentPayment
    /\ \A i \in 1..3 :
          /\ billing.rows[i].retries_left = CHARGE_RETRIES_COUNT - (i - 1)
          /\ billing.rows[i].done /\ billing.rows[i].task = "ended"
    /\ \A i \in 1..2 : billing.rows[i + 1].time = billing.rows[i].time + CHARGE_RETRY_PERIOD
    /\ billing.rows[4].retries_left = CHARGE_RETRIES_COUNT
    /\ billing.rows[4].task = "armed"
    /\ \E p \in billing.plans[billing.rows[4].user_id] :
          ~p.extra /\ p.end = billing.rows[4].time /\ p.start >= billing.rows[3].time
    /\ billing.extra_data[billing.rows[4].user_id].failed_recurrent_recovered = "true"

\* ------------------------------------------------ registry properties
\* C20: defining an Action subclass under a name that is registered, by a class
\* or by a decorated function, raises and changes nothing: handlers keeps the
\* handler it had under every name and the class is not created; the raise
\* ends the import, so nothing has been scheduled when it happens and nothing
\* is scheduled after it.
C20_DuplicateNameRaises ==
    /\ \A cls \in ActionClasses, n \in ActionNames :
          (registry.phase = "import" /\ cls \notin registry.classes
                /\ registry.handlers[n] # "none") =>
              LET reg == __init_subclass__(registry, cls, n)
              IN  /\ reg.phase = "failed"
                  /\ reg.handlers = registry.handlers
                  /\ reg.classes = registry.classes
    /\ registry.phase = "failed" => registry.scheduled = {}

\* C20 witness: the second class statement used the name of the first and
\* raised; the first class still handles the name.
C20_Witness ==
    /\ registry.phase = "failed"
    /\ Cardinality(registry.classes) = 1
    /\ \E n \in ActionNames : registry.handlers[n] \in registry.classes

\* C21 (as claimed): the registry is write-once under both ways of
\* registering: a name that has a handler keeps that handler in every step,
\* whether the step is a class statement or a decorated function.
C21_RegistryWriteOnce ==
    [][ \A n \in ActionNames :
            registry.handlers[n] # "none" =>
                registry'.handlers[n] = registry.handlers[n] ]_vars

\* ------------------------------------------------ start in a fresh process
\* run() is about to arm what it loaded in a process where nothing else has
\* happened: no task exists, no session is open and the rows it loaded are the
\* pending rows of the store.
FreshProcess ==
    /\ pc = "loaded"
    /\ \A k \in TaskKeys : tasks[k] = NoTask
    /\ \A c \in Callers : ~tx[c].open
    /\ actions = _get_scheduled_actions

\* C22: when start arms its load in a fresh process, the index afterwards
\* holds exactly the ids of the rows that are not done: every pending row has
\* one waiting task, armed by start with the row's type and time, no done or
\* absent row has an entry or a task, whatever the previous process had in its
\* index.
C22_StartArmsExactlyPending ==
    [][ (FreshProcess /\ pc' = "idle") =>
            \A i \in Ids :
                /\ scheduled_tasks'[i] # "none" <=> (store'[i].present /\ ~store'[i].done)
                /\ Pending(i) =>
                      /\ scheduled_tasks'[i] = "start"
                      /\ tasks'[<<i, "start">>] = NewTask(store[i].type, store[i].time)
                      /\ tasks'[<<i, "sched">>] = NoTask
                /\ ~Pending(i) => \A o \in Origins : tasks'[<<i, o>>] = NoTask ]_vars

\* C22 witness: the second process has armed its load: a pending row of the
\* first process has its waiting task and entry, and a row the first process
\* completed (it had an entry there) has neither.
C22_Witness ==
    \E i, j \in Ids :
        /\ epoch = 2 /\ pc = "idle"
        /\ \A c \in Callers : ~tx[c].open
        /\ Pending(i) /\ scheduled_tasks[i] = "start"
        /\ tasks[<<i, "start">>].st = "waiting"
        /\ Done(j) /\ scheduled_tasks[j] = "none"
        /\ \A k \in TaskKeys : k # <<i, "start">> => tasks[k] = NoTask

\* C23: whenever the handler of an action has been invoked, by a task armed by
\* raw_schedule_action or by run(), the clock is not earlier than the time the
\* task was armed with, and that time is the time of the action's row.
C23_NeverBeforeTime ==
    \A k \in TaskKeys :
        Fired(tasks[k]) =>
            /\ now >= tasks[k].dt
            /\ store[k[1]].present => store[k[1]].time = tasks[k].dt
            /\ pending_rows[k[1]].present => pending_rows[k[1]].time = tasks[k].dt

\* C23 witness: two handlers have been invoked at the time of their actions,
\* one by a task raw_schedule_action armed and one by a task run() armed, both
\* armed before that time.
C23_Witness ==
    \E i, j \in Ids :
        /\ Alive
        /\ Fired(tasks[<<i, "sched">>]) /\ tasks[<<i, "sched">>].at < tasks[<<i, "sched">>].dt
        /\ Fired(tasks[<<j, "start">>]) /\ tasks[<<j, "start">>].at < tasks[<<j, "start">>].dt
        /\ now = tasks[<<i, "sched">>].dt /\ now = tasks[<<j, "start">>].dt

\* C24 (as claimed): a store failure is raised and leaves nothing half done:
\* a failure of mark_done is not ended inside the task but brings the process
\* down, as a failure of start's load does; and when the session a
\* raw_schedule_action inserted in fails, no task of the inserted ids is live
\* and the index has no entry for them.
C24_StoreFailurePropagates ==
    [][ /\ \A k \in TaskKeys :
              (tasks[k].st = "running" /\ tasks'[k].st = "store_failed") => pc' = "down"
        /\ (pc = "init" /\ pc' # "init" /\ pc' # "loaded") => pc' = "down"
        /\ \A c \in Callers :
              (Alive /\ pc' # "down" /\ tx[c].open /\ ~tx'[c].open /\ store' = store) =>
                  \A i \in tx[c].ins :
                      /\ ~Live(tasks'[<<i, "sched">>])
                      /\ scheduled_tasks'[i] = "none" ]_vars

\* C25: within a process the index is changed by three operations only:
\* raw_schedule_action enters the new id, raw_cancel_action removes the id it
\* cancels, and run() enters the ids it loaded.  A step in which a task fires,
\* its handler returns or raises, and the shutdown of run(), leave the index
\* as it is.  (The index of a process ends with the process.)
C25_IndexFrame ==
    [][ /\ (scheduled_tasks' # scheduled_tasks /\ pc # "down" /\ ~Crashed) =>
              \/ /\ next_id' = next_id + 1
                 /\ scheduled_tasks' = [scheduled_tasks EXCEPT ![next_id] = "sched"]
              \/ \E c \in Callers, i \in Ids :
                    /\ i \notin tx[c].upd /\ i \in tx'[c].upd
                    /\ scheduled_tasks' = [scheduled_tasks EXCEPT ![i] = "none"]
              \/ /\ pc = "loaded" /\ pc' = "idle"
                 /\ scheduled_tasks' =
                        [i \in Ids |-> IF i \in actions THEN "start" ELSE scheduled_tasks[i]]
        /\ \A k \in TaskKeys :
              (/\ Live(tasks[k]) /\ tasks'[k].st # tasks[k].st
               /\ tasks'[k].st \in {"running", "finished", "failed"}) =>
                  scheduled_tasks' = scheduled_tasks
        /\ (pc = "idle" /\ pc' = "down" /\ ~Crashed) =>
              scheduled_tasks' = scheduled_tasks ]_vars

\* C25 witness: one action has fired and completed, another has fired and
\* failed, run() has shut down, and the index still holds both ids.
C25_Witness ==
    \E i, j \in Ids :
        /\ pc = "down"
        /\ scheduled_tasks[i] # "none" /\ scheduled_tasks[j] # "none"
        /\ tasks[<<i, scheduled_tasks[i]>>].st = "finished" /\ Done(i)
        /\ tasks[<<j, scheduled_tasks[j]>>].st = "failed" /\ Pending(j)

\* ------------------------------------------------ recovered markers
\* The step adds a plan (extra or not) to the plans of user u.
PlanAdded(u, extra) ==
    \E p \in billing'.plans[u] \ billing.plans[u] : p.extra = extra

\* C26 (as claimed): every step that resolves a failed payment leaves the
\* marker of its kind true, and a failed charge leaves it false: a renewal of
\* the subscription (by the scheduled action, the retry button or the pay
\* notification) sets failed_recurrent_recovered, the activation of an extra
\* plan that pays for a failed extra charge (by the scheduled retry, the
\* button or the notification) sets failed_extra_recovered, and a scheduled
\* recurring charge that fails sets failed_recurrent_recovered to false.
C26_RecoveredMarkers ==
    [][ \A u \in Users :
          /\ (billing.subscription[u] /\ billing'.subscription[u] /\ PlanAdded(u, FALSE)) =>
                billing'.extra_data[u].failed_recurrent_recovered = "true"
          /\ (/\ billing.extra_data[u].failed_extra_recovered = "false"
              /\ PlanAdded(u, TRUE)
              /\ billing.extra_data[u].advance_service_state # AdvanceServiceState.IN_PROGRESS) =>
                billing'.extra_data[u].failed_extra_recovered = "true"
          /\ \A i \in BillingIds(billing), cur \in get_main_active_plan(billing, u) :
                (/\ Due(billing, i, {BillingActions.RecurrentPayment})
                 /\ billing.rows[i].user_id = u /\ billing.subscription[u]) =>
                    RecurrentPaymentAction_run(billing, i, FALSE, cur)
                        .extra_data[u].failed_recurrent_recovered = "false" ]_vars

\* ------------------------------------------------ typed action properties
\* C27: deserialize(serialize(a)) is an instance of a's class with a's field
\* values, also through the JSON of the row; so the handler registered for the
\* class, given the kwargs of the task or the args of the row, runs an action
\* equal to the one that was scheduled.  deserialize raises on a mapping with
\* a key that is not a field of the class, and has built no object then.
C27_RoundTrip ==
    /\ typed.phase # "new" =>
          /\ deserialize(typed.a.cls, serialize(typed.a)) =
                [raised |-> "none", obj |-> typed.a]
          /\ deserialize(typed.a.cls, json_loads(json_dumps(serialize(typed.a)))) =
                [raised |-> "none", obj |-> typed.a]
    /\ (typed.phase = "handled" /\ typed.handler = typed.a.cls) =>
          typed.result = [raised |-> "none", obj |-> typed.a]
    /\ \A cls \in TypedActions :
          (/\ typed.phase \in {"scheduled", "loaded"}
           /\ \E name \in DOMAIN typed.kwargs : name \notin ActionFields[cls]) =>
              /\ do_handle(cls, typed.kwargs).raised = "AssertionError"
              /\ do_handle(cls, typed.kwargs).obj = NoObject

\* C27 witness: an ExtraPlanPaymentRetryAction went through the row's JSON and
\* its handler ran an equal action.
C27_Witness ==
    /\ typed.phase = "handled"
    /\ typed.a.cls = "ExtraPlanPaymentRetryAction"
    /\ typed.handler = typed.a.cls
    /\ typed.kwargs = json_loads(typed.args)
    /\ typed.result.obj = typed.a
    /\ typed.a.fields["retries_left"] # typed.a.fields["user_id"]

\* C27, second witness: the args of an ExtraPlanPaymentRetryAction were given
\* to the handler of RecurrentPaymentAction, which raised on the key deadline.
C27_WitnessRejected ==
    /\ typed.phase = "handled"
    /\ typed.a.cls = "ExtraPlanPaymentRetryAction"
    /\ typed.handler = "RecurrentPaymentAction"
    /\ typed.result.raised = "AssertionError"

\* C28 (as claimed): no user ever has more than one pending recurring charge:
\* at most one row of type recurrent_payment or recurrent_payment_retry of the
\* user is not done.
C28_OnePendingRecurringCharge ==
    \A u \in Users :
        Cardinality(find_scheduled_actions(billing, u,
            {BillingActions.RecurrentPayment, BillingActions.RecurrentPaymentRetry})) <= 1

\* C29 (as claimed): when a due extra plan retry is run with a charge that goes
\* through, its handler activates the extra plan, resets the advance service
\* state, cancels the user's other pending extra plan retries and leaves its
\* own task alone, so that the wrapper ends it by marking the row done.
C29_RetrySuccessCompletes ==
    \A i \in BillingIds(billing) :
        \A ap \in get_active_plan(billing, billing.rows[i].user_id) :
            (/\ Due(billing, i, {BillingActions.ExtraPlanPaymentRetry})
             /\ billing.today <= billing.rows[i].deadline
             /\ ap # NoPlan) =>
                LET u == billing.rows[i].user_id
                    b2 == ExtraPlanPaymentRetryAction_run(billing, i, TRUE, ap)
                IN  /\ \E p \in b2.plans[u] : p.extra /\ p.start = billing.today
                    /\ b2.extra_data[u].advance_service_state = AdvanceServiceState.UNUSED
                    /\ \A j \in BillingIds(b2) :
                          (j # i /\ b2.rows[j].user_id = u
                                 /\ b2.rows[j].type = BillingActions.ExtraPlanPaymentRetry) =>
                              b2.rows[j].done
                    /\ b2.rows[i].task # "cancelled"
                    /\ perform_done(b2, i).rows[i].done

\* C30: a failed charge of a due ExtraPlanPaymentRetryAction that is not past
\* its deadline schedules, with budget n > 0, exactly one row: the same type,
\* user and deadline, CHARGE_RETRY_PERIOD after the failing row's time, budget
\* n - 1; with budget 0 it schedules nothing.  Past its deadline the action
\* changes nothing, whether a charge would go through or not.  No other row
\* changes, and no such row carries a budget outside 0..CHARGE_RETRIES_COUNT.
C30_ExtraRetryBudget ==
    /\ \A i \in BillingIds(billing) :
          billing.rows[i].type = BillingActions.ExtraPlanPaymentRetry =>
              billing.rows[i].retries_left \in 0..CHARGE_RETRIES_COUNT
    /\ \A i \in BillingIds(billing) :
          Due(billing, i, {BillingActions.ExtraPlanPaymentRetry}) =>
              \A ap \in get_active_plan(billing, billing.rows[i].user_id) :
                  LET r == billing.rows[i]
                      b2 == ExtraPlanPaymentRetryAction_run(billing, i, FALSE, ap)
                      new == NewRows(b2)
                  IN  IF billing.today > r.deadline
                        THEN \A ok \in BOOLEAN :
                                ExtraPlanPaymentRetryAction_run(billing, i, ok, ap) = billing
                        ELSE /\ OldRowsKept(b2)
                             /\ b2.plans = billing.plans
                             /\ IF r.retries_left > 0
                                   THEN /\ Len(new) = 1
                                        /\ new[1].type = r.type
                                        /\ new[1].user_id = r.user_id
                                        /\ new[1].deadline = r.deadline
                                        /\ new[1].time = r.time + CHARGE_RETRY_PERIOD
                                        /\ new[1].retries_left = r.retries_left - 1
                                        /\ ~new[1].done /\ new[1].task = "armed"
                                   ELSE b2 = billing

\* C30 witness: an extra plan retry with the full budget failed, its two
\* follow-ups, each a retry period after the one before, failed as well before
\* the deadline, and the third failure has scheduled nothing.
C30_Witness ==
    \E k \in BillingIds(billing) :
        /\ Len(billing.rows) = k + 3
        /\ billing.rows[k + 1].type = BillingActions.ExtraPlanReset
        /\ \A n \in 0..2 :
              LET r == billing.rows[IF n = 0 THEN k ELSE k + n + 1]
              IN  /\ r.type = BillingActions.ExtraPlanPaymentRetry
                  /\ r.retries_left = CHARGE_RETRIES_COUNT - n
                  /\ r.time = billing.rows[k].time + n * CHARGE_RETRY_PERIOD
                  /\ r.time <= r.deadline
                  /\ r.done /\ r.task = "ended"
        /\ billing.today = billing.rows[k].time + 2 * CHARGE_RETRY_PERIOD

\* C30, second witness: a follow-up whose time is past the deadline has fired
\* and ended, and it was the last row scheduled.
C30_WitnessExpired ==
    /\ billing.rows # <<>>
    /\ LET r == billing.rows[Len(billing.rows)]
       IN  /\ r.type = BillingActions.ExtraPlanPaymentRetry
           /\ r.time > r.deadline
           /\ r.retries_left > 0
           /\ r.done /\ r.task = "ended"

\* C31: when the delayed sweep of a kick executes for a user who has not
\* subscribed again, the user is left without subscription and active plans,
\* none of the user's kick, recurring charge, recurring retry and extra plan
\* retry rows is pending, and a kick row of the user is done with its task
\* ended by itself.
C31_KickLeavesNothing ==
    [][\A u \in Users :
          (u \in billing.sweep /\ u \notin billing'.sweep /\ ~billing.subscription[u])
              => /\ ~billing'.subscription[u]
                 /\ billing'.plans[u] = {}
                 /\ find_scheduled_actions(billing', u,
                        {BillingActions.KickInactive, BillingActions.RecurrentPayment,
                         BillingActions.RecurrentPaymentRetry,
                         BillingActions.ExtraPlanPaymentRetry}) = {}
                 /\ \E i \in BillingIds(billing') :
                        /\ billing'.rows[i].user_id = u
                        /\ billing'.rows[i].type = BillingActions.KickInactive
                        /\ billing'.rows[i].done
                        /\ billing'.rows[i].task = "ended"]_vars

\* C32: the delayed sweep of a kick leaves alone what was scheduled after the
\* kick: when it executes for a user who has subscribed again in the meantime,
\* the recurring charge of the new subscription (the one scheduled for the end
\* of a plan activated since the kick) is still pending and armed afterwards.
C32_SweepSparesNewSubscription ==
    [][\A u \in Users : \A i \in BillingIds(billing) :
          (/\ u \in billing.sweep /\ u \notin billing'.sweep
           /\ billing.subscription[u]
           /\ billing.rows[i].user_id = u
           /\ billing.rows[i].type = BillingActions.RecurrentPayment
           /\ ~billing.rows[i].done /\ billing.rows[i].task = "armed"
           /\ \E p \in billing.plans[u] :
                 ~p.extra /\ billing.rows[i].time = p.end - CHARGE_AHEAD_TIME)
              => (~billing'.rows[i].done /\ billing'.rows[i].task = "armed")]_vars

\* C33: a cancel takes effect together with the transaction it was called in.
\* A row that is pending in the store and whose task was cancelled and taken
\* out of the index has its cancel still waiting to be committed in an open
\* session; once that session has rolled back the task is armed as before.
C33_CancelAtomicWithTransaction ==
    \A id \in Ids : \A o \in Origins :
        (/\ Alive
         /\ Pending(id)
         /\ tasks[<<id, o>>].st = "cancelled"
         /\ scheduled_tasks[id] = "none")
            => \E c \in Callers : tx[c].open /\ id \in tx[c].upd

C34_NestedCallSameSession ==
    \A c \in Contexts : \A n \in 2..Len(sessions.blocks[c]) :
        /\ sessions.blocks[c][n].session = sessions.blocks[c][1].session
        /\ sessions.state[sessions.blocks[c][1].session] = "open"

\* C35: when a session() block is left, at the end of its body or by an
\* exception, the context's current session is what it was before the block
\* was entered; and a call with allow_reuse that takes the current session
\* takes an open one, never one that has been closed.
C35_CurrentSessionRestored ==
    [][\A c \in Contexts :
          /\ Len(sessions'.blocks[c]) < Len(sessions.blocks[c])
                => sessions'.cur_session[c] =
                      (IF Innermost(sessions, c).new THEN Innermost(sessions, c).token
                       ELSE sessions.cur_session[c])
          /\ (Len(sessions'.blocks[c]) > Len(sessions.blocks[c])
                /\ ~Innermost(sessions', c).new)
                => sessions.state[Innermost(sessions', c).session] = "open"]_vars

====
